---- MODULE Spec2Model ----
(***************************************************************************)
(* Model of the collaborative-editing event endpoints of                   *)
(* src/src/collab/server/server.js: the GET <doc>/events long-poll         *)
(* handler, the POST <doc>/events submission handler, the Waiting helper   *)
(* (timeout, abort, send) and the validation helpers.  The document        *)
(* instance (getInstance, getEvents, addEvents) lives in ./instance, which *)
(* is not part of the source tree at hand; it is modelled from spec.md     *)
(* sections 4.1-4.3.                                                       *)
(*                                                                         *)
(* Strings that the code inspects (document ids, numeric query fields) are *)
(* sequences of one-character strings, so that trim() and Number() are     *)
(* computed rather than assumed.                                           *)
(***************************************************************************)
EXTENDS Integers, Sequences, FiniteSets, TLC

\* ------------------------------------------------------------------ bounds
\* Number of requests (GET or POST <doc>/events) handled in a behaviour.
MaxRequests == 4

\* ------------------------------------------------------- spec.md tunables
\* Retention horizon, in versions, of an instance's history (spec.md 3, 9).
HistoryHorizon == 2

\* ---------------------------------------------------------------- inputs
\* Raw <doc> path segments, as the router hands them to the handlers.
RawIds ==
  { <<"a">>, <<" ", "b">>, <<"_", "x">>, <<" ">>,
    <<"f", "a", "v", "i", "c", "o", "n", ".", "i", "c", "o">> }

\* The <doc> segments of the submissions.
SubmitIds == { <<"a">>, <<" ", "b">>, <<"_", "x">> }

\* Raw values of the version / commentVersion fields.
RawNumbers ==
  { <<"0">>, <<"1">>, <<"2">>, <<"-", "1">>, <<"1", ".", "5">>,
    <<"a", "b", "c">>, <<"I", "n", "f", "i", "n", "i", "t", "y">> }

\* Bodies of the submissions: client 1 sends one step and no comment,
\* client 2 sends two steps and one comment event.
Submissions ==
  { [clientID |-> 1, steps |-> <<"s1">>, comment |-> <<>>],
    [clientID |-> 2, steps |-> <<"s2", "s3">>, comment |-> <<"c1">>] }

\* ------------------------------------------------------- string helpers
RECURSIVE TrimLeft(_)
TrimLeft(str) ==
  IF str # <<>> /\ Head(str) = " " THEN TrimLeft(Tail(str)) ELSE str

RECURSIVE TrimRight(_)
TrimRight(str) ==
  IF str # <<>> /\ str[Len(str)] = " "
  THEN TrimRight(SubSeq(str, 1, Len(str) - 1))
  ELSE str

\* String.prototype.trim
Trim(str) == TrimRight(TrimLeft(str))

FaviconIco == <<"f", "a", "v", "i", "c", "o", "n", ".", "i", "c", "o">>

Digits == {"0", "1", "2", "3", "4", "5", "6", "7", "8", "9"}

DigitVal(c) ==
  CASE c = "0" -> 0 [] c = "1" -> 1 [] c = "2" -> 2 [] c = "3" -> 3
    [] c = "4" -> 4 [] c = "5" -> 5 [] c = "6" -> 6 [] c = "7" -> 7
    [] c = "8" -> 8 [] c = "9" -> 9

RECURSIVE DigitsValue(_, _)
DigitsValue(str, acc) ==
  IF str = <<>> THEN acc
  ELSE DigitsValue(Tail(str), 10 * acc + DigitVal(Head(str)))

AllDigits(str) == \A i \in 1..Len(str) : str[i] \in Digits

\* Index of the first "." of str, 0 when there is none.
DotIndex(str) ==
  IF \E i \in 1..Len(str) : str[i] = "."
  THEN CHOOSE i \in 1..Len(str) :
         str[i] = "." /\ \A j \in 1..(i - 1) : str[j] # "."
  ELSE 0

\* The numeric literal of the infinite value.
InfinityLiteral == <<"I", "n", "f", "i", "n", "i", "t", "y">>

\* The magnitude of Infinity: above every version an instance can reach.
Infinity == MaxRequests + 1

\* Number(str) for decimal literals and Infinity: [nan, inf, neg, int, frac],
\* the value being (neg ? -1 : 1) * (int + 0.frac); frac is the value of the
\* fraction digits (zero exactly when the value is an integer); inf tells
\* the infinite values, whose int is Infinity.
Number(str) ==
  LET s    == Trim(str)
      neg  == s # <<>> /\ Head(s) = "-"
      body == IF s # <<>> /\ Head(s) \in {"-", "+"} THEN Tail(s) ELSE s
      dot  == DotIndex(body)
      ip   == IF dot = 0 THEN body ELSE SubSeq(body, 1, dot - 1)
      fp   == IF dot = 0 THEN <<>> ELSE SubSeq(body, dot + 1, Len(body))
      NaN  == [nan |-> TRUE, inf |-> FALSE, neg |-> FALSE,
               int |-> 0, frac |-> 0]
  IN  IF s = <<>>
      THEN [nan |-> FALSE, inf |-> FALSE, neg |-> FALSE, int |-> 0, frac |-> 0]
      ELSE IF body = InfinityLiteral
      THEN [nan |-> FALSE, inf |-> TRUE, neg |-> neg,
            int |-> Infinity, frac |-> 0]
      ELSE IF body = <<>> \/ ~AllDigits(ip) \/ ~AllDigits(fp)
              \/ (ip = <<>> /\ fp = <<>>)
      THEN NaN
      ELSE [nan |-> FALSE, inf |-> FALSE, neg |-> neg,
            int |-> DigitsValue(ip, 0), frac |-> DigitsValue(fp, 0)]

\* -------------------------------------------------------------- Output
\* An HTTP response: status code and body.
Output(code, body) == [code |-> code, body |-> body]

\* A text/plain body.
Text(str) == [text |-> str]

\* Output.json(data)
OutputJson(data) == Output(200, data)

\* The JSON object {}.
EmptyObject == [k \in {} |-> 0]

\* ---------------------------------------------------------- validation
\* nonNegInteger(str): [ok, num]; ok = FALSE stands for the thrown error
\* with status 400.  isNaN, Math.floor(num) == num and num >= 0 all let
\* Infinity through.
nonNegInteger(str) ==
  LET num == Number(str)
  IN  IF ~num.nan /\ num.frac = 0 /\ (~num.neg \/ num.int = 0)
      THEN [ok |-> TRUE, num |-> num.int]
      ELSE [ok |-> FALSE, num |-> 0]

\* validInstanceId(str): [ok, id]; ok = FALSE stands for the thrown error
\* with status 400.
validInstanceId(str) ==
  LET s == Trim(str)
  IN  IF (s = <<>> \/ s[1] # "_") /\ s # FaviconIco /\ s # <<>>
      THEN [ok |-> TRUE, id |-> s]
      ELSE [ok |-> FALSE, id |-> s]

\* nonNegInteger and validInstanceId over the inputs of the model, tabulated.
NonNegIntegers == [str \in RawNumbers |-> nonNegInteger(str)]

ValidInstanceIds == [str \in RawIds |-> validInstanceId(str)]

\* ------------------------------------------------- instance (./instance)
\* Step.fromJSON(schema, s): the step object built from its JSON form.
StepFromJSON(s) == [step |-> s]

\* step.toJSON()
StepToJSON(st) == st.step

\* A freshly created document instance.  steps and comments.events are the
\* retained history buffers, each entry stamped with the version its
\* acceptance produced; waiting is the list of blocked polls (response
\* objects), oldest first.  accepted is a history variable: every entry
\* ever accepted, never truncated (likewise comments.accepted); notified is
\* another one: the waiters the latest notification pass resolved, in the
\* order in which it resolved them.
NewInstance ==
  [version  |-> 0,
   steps    |-> <<>>,
   comments |-> [version |-> 0, events |-> <<>>, accepted |-> <<>>],
   waiting  |-> <<>>,
   accepted |-> <<>>,
   notified |-> <<>>]

\* GetInstance handing out one instance for every id.
GetInstanceShared(store, id) == store[<<"a">>]

\* getInstance(id, ip): the instance the store holds for id.  An instance is
\* created on first access, and one that no request has touched yet cannot
\* be told from a fresh one, so the store holds NewInstance for every id
\* from the start.
GetInstance(store, id) == store[id]

\* Oldest baseline that can still be replayed from a buffer at version v.
Floor(v) == IF v > HistoryHorizon THEN v - HistoryHorizon ELSE 0

\* Entries of a buffer stamped after version v.
Since(buffer, v) == SelectSeq(buffer, LAMBDA e : e.version > v)

\* inst.getEvents(version, commentVersion): ok = FALSE is the result
\* `false` (history no longer available).
GetEvents(inst, version, commentVersion) ==
  IF version < Floor(inst.version)
     \/ commentVersion < Floor(inst.comments.version)
  THEN [ok |-> FALSE]
  ELSE [ok      |-> TRUE,
        steps   |-> Since(inst.steps, version),
        comment |-> Since(inst.comments.events, commentVersion)]

\* The optimistic-concurrency test of addEvents.
VersionCurrent(inst, version) == version = inst.version

\* Steps of a batch tagged with the submitter and stamped with version v.
RECURSIVE Tagged(_, _, _)
Tagged(steps, clientID, v) ==
  IF steps = <<>> THEN <<>>
  ELSE <<[step |-> Head(steps).step, clientID |-> clientID, version |-> v]>>
       \o Tagged(Tail(steps), clientID, v)

RECURSIVE Stamped(_, _)
Stamped(comment, v) ==
  IF comment = <<>> THEN <<>>
  ELSE <<[comment |-> Head(comment), version |-> v]>>
       \o Stamped(Tail(comment), v)

\* NextVersion with one version per step of the batch.
NextVersionPerStep(inst, steps) == inst.version + Len(steps)

\* The version an accepted batch produces.
NextVersion(inst, steps) == inst.version + 1

\* inst.addEvents(version, steps, comment, clientID) up to, not including,
\* the notification of the waiters: ok = FALSE is the result `false`.
AddEvents(inst, version, steps, comment, clientID) ==
  IF ~VersionCurrent(inst, version)
  THEN [ok |-> FALSE, inst |-> inst, result |-> EmptyObject]
  ELSE
    LET v       == NextVersion(inst, steps)
        cv      == IF comment = <<>> THEN inst.comments.version
                   ELSE inst.comments.version + 1
        entries == Tagged(steps, clientID, v)
        new     == [inst EXCEPT
                      !.version  = v,
                      !.steps    = Since(@ \o entries, Floor(v)),
                      !.comments = [version  |-> cv,
                                    events   |-> Since(@.events \o Stamped(comment, cv),
                                                       Floor(cv)),
                                    accepted |-> @.accepted \o
                                                 [i \in 1..Len(comment) |->
                                                    [comment |-> comment[i],
                                                     version |-> cv]]],
                      !.accepted = @ \o [i \in 1..Len(steps) |->
                                           [step     |-> steps[i].step,
                                            clientID |-> clientID,
                                            version  |-> inst.version + 1]]]
    IN  [ok |-> TRUE, inst |-> new,
         result |-> [version |-> v, commentVersion |-> cv]]

\* ------------------------------------------------------------- Waiting
\* new Waiting(resp, inst, ip, finish): the waiter of a parked poll together
\* with its response object and the variables its finish closure captures
\* (inst, version, commentVersion).  written is what has been written to the
\* response object, closed whether its "close" event has been emitted.
\* sentBy (the event that wrote each response) and regLen (the length of
\* inst.accepted at registration) are history variables.
NewWaiting(id, version, commentVersion, regLen) ==
  [inst           |-> id,
   version        |-> version,
   commentVersion |-> commentVersion,
   done           |-> FALSE,
   written        |-> <<>>,
   closed         |-> FALSE,
   sentBy         |-> <<>>,
   regLen         |-> regLen]

\* Abort that leaves the list as it is.
AbortKeep(list, r) == list

\* Waiting.abort on the instance's list: indexOf, then splice.
Abort(list, r) == SelectSeq(list, LAMBDA x : x # r)

\* Send without the test of the done flag.
SendUnguarded(w, output, by) ==
  [w EXCEPT !.written = Append(@, output),
            !.sentBy  = Append(@, by),
            !.done    = TRUE]

\* Waiting.send(output) of waiter w, the write being caused by event `by`.
Send(w, output, by) ==
  IF w.done THEN w
  ELSE [w EXCEPT !.written = Append(@, output),
                 !.sentBy  = Append(@, by),
                 !.done    = TRUE]

\* TimeoutBody as a batch without steps.
TimeoutBodyBatch == [steps |-> <<>>, clientIDs |-> <<>>, comment |-> <<>>]

\* The body the timeout callback sends.
TimeoutBody == EmptyObject

RECURSIVE MapSteps(_)
MapSteps(entries) ==
  IF entries = <<>> THEN <<>>
  ELSE <<StepToJSON(Head(entries))>> \o MapSteps(Tail(entries))

RECURSIVE MapClientIDs(_)
MapClientIDs(entries) ==
  IF entries = <<>> THEN <<>>
  ELSE <<Head(entries).clientID>> \o MapClientIDs(Tail(entries))

RECURSIVE MapComments(_)
MapComments(events) ==
  IF events = <<>> THEN <<>>
  ELSE <<Head(events).comment>> \o MapComments(Tail(events))

Reverse(seq) == [i \in 1..Len(seq) |-> seq[Len(seq) + 1 - i]]

\* OutputEvents listing the events newest first.
OutputEventsReversed(inst, data) ==
  OutputJson([version        |-> inst.version,
              commentVersion |-> inst.comments.version,
              steps          |-> Reverse(MapSteps(data.steps)),
              clientIDs      |-> Reverse(MapClientIDs(data.steps)),
              comment        |-> Reverse(MapComments(data.comment))])

\* OutputEvents keeping only the newest step of the batch.
OutputEventsNewestOnly(inst, data) ==
  OutputJson([version        |-> inst.version,
              commentVersion |-> inst.comments.version,
              steps          |-> SubSeq(MapSteps(data.steps),
                                        Len(data.steps), Len(data.steps)),
              clientIDs      |-> SubSeq(MapClientIDs(data.steps),
                                        Len(data.steps), Len(data.steps)),
              comment        |-> MapComments(data.comment)])

\* outputEvents(inst, data)
OutputEvents(inst, data) ==
  OutputJson([version        |-> inst.version,
              commentVersion |-> inst.comments.version,
              steps          |-> MapSteps(data.steps),
              clientIDs      |-> MapClientIDs(data.steps),
              comment        |-> MapComments(data.comment)])

\* HasEvents looking at the steps only.
HasEventsStepsOnly(data) == data.steps # <<>>

\* HasEvents that also holds of empty events.
HasEventsAlways(data) == Len(data.steps) >= 0 \/ Len(data.comment) >= 0

\* The test that answers a poll at once instead of parking it.
HasEvents(data) == data.steps # <<>> \/ data.comment # <<>>

\* Finish stamping the batch with the baseline of the waiter.
FinishAtBaseline(w, inst) ==
  LET data == GetEvents(inst, w.version, w.commentVersion)
  IN  Send(w,
           OutputJson([version        |-> w.version,
                       commentVersion |-> w.commentVersion,
                       steps          |-> MapSteps(data.steps),
                       clientIDs      |-> MapClientIDs(data.steps),
                       comment        |-> MapComments(data.comment)]),
           "publish")

\* Finish sending the events as they were when the waiter was created.
FinishAtCreation(w, inst) ==
  Send(w,
       OutputEvents(inst, [ok |-> TRUE, steps |-> <<>>, comment |-> <<>>]),
       "publish")

\* The finish closure of waiter w, run against the instance as it is at
\* resolution time.
Finish(w, inst) ==
  Send(w,
       OutputEvents(inst, GetEvents(inst, w.version, w.commentVersion)),
       "publish")

\* Whether finish throws: outputEvents reads data.steps of `false`.
FinishThrows(w, inst) == ~GetEvents(inst, w.version, w.commentVersion).ok

\* NotifyOrder taking the newest waiter first.
NotifyOrderNewestFirst(list) == Reverse(list)

\* The order in which the notification pass takes the waiters of a list.
NotifyOrder(list) == list

\* The notification pass of addEvents over the waiters `list` of inst: each
\* waiter is taken off the list and its finish closure is run; an exception
\* thrown by a closure ends the pass.  sent lists the waiters whose closure
\* has run, in the order of the pass.
RECURSIVE SendUpdates(_, _, _)
SendUpdates(list, inst, rsps) ==
  IF list = <<>>
  THEN [resps |-> rsps, waiting |-> <<>>, thrown |-> FALSE, sent |-> <<>>]
  ELSE IF FinishThrows(rsps[Head(list)], inst)
  THEN [resps |-> rsps, waiting |-> Tail(list), thrown |-> TRUE,
        sent |-> <<>>]
  ELSE LET rest == SendUpdates(Tail(list), inst,
                               [rsps EXCEPT ![Head(list)] = Finish(@, inst)])
       IN  [rest EXCEPT !.sent = <<Head(list)>> \o @]

\* ---------------------------------------------------------------- state
VARIABLES
  instances,   \* the instance store: document id -> instance
  resps,       \* the waiters of the parked polls, in order of creation
  out,         \* what handle() wrote for the latest request
  requests,    \* number of requests handled so far
  reader       \* a client that follows one document by polling

vars == <<instances, resps, out, requests, reader>>

\* The keys the instance store can be asked for.
InstIds ==
  SubmitIds \cup {ValidInstanceIds[rawId].id :
                   rawId \in {x \in RawIds : ValidInstanceIds[x].ok}}

\* handle() wrote nothing: the handler returned no output.
NoOutput == [method |-> "", code |-> 0, body |-> EmptyObject]

\* handle(): `if (output) output.resp(resp)` for the output the handler of
\* `method` returned, or built from the error it threw.
Respond(method, output) ==
  [method |-> method, code |-> output.code, body |-> output.body]

\* The document the reader follows.
ReaderId == <<"a">>

\* The reader before its first poll: its baseline, the steps and client
\* identifiers it has received so far, the waiter of its outstanding poll
\* (0 when it has none) and whether it was told that its baseline is gone.
NewReader ==
  [version        |-> 0,
   commentVersion |-> 0,
   steps          |-> <<>>,
   clientIDs      |-> <<>>,
   waiter         |-> 0,
   gone           |-> FALSE]

Init ==
  /\ instances = [id \in InstIds |-> NewInstance]
  /\ resps = <<>>
  /\ out = NoOutput
  /\ requests = 0
  /\ reader = NewReader

\* ------------------------------------------------------------- handlers
BadInteger == Output(400, Text("Error: Not a non-negative integer"))
BadId == Output(400, Text("Error: Not a valid document id"))
Gone == Output(410, Text("History no longer available"))
Stale == Output(409, Text("Version not current"))
ServerError == Output(500, Text("TypeError"))

\* PollOutcome that parks the poll when the history is gone.
PollOutcomeNoGone(data) ==
  IF data.ok /\ HasEvents(data) THEN "events" ELSE "wait"

\* PollOutcome that parks every poll whose history is available.
PollOutcomeAlwaysWait(data) == IF ~data.ok THEN "gone" ELSE "wait"

\* What the GET handler does once it holds the events of the instance:
\* "gone", "events" (answer at once) or "wait" (park a waiter).
PollOutcome(data) ==
  IF ~data.ok THEN "gone"
  ELSE IF HasEvents(data) THEN "events"
  ELSE "wait"

\* What a handler or callback leaves behind: the store, the waiters and what
\* handle() wrote.
Effect(store, rsps, output) ==
  [instances |-> store, resps |-> rsps, out |-> output]

\* handle("GET", [null, "events"], ...) run in the current state.
HandleGetEvents(rawId, rawVersion, rawCommentVersion) ==
  LET version        == NonNegIntegers[rawVersion]
      commentVersion == NonNegIntegers[rawCommentVersion]
      id             == ValidInstanceIds[rawId]
      inst           == GetInstance(instances, id.id)
      data           == GetEvents(inst, version.num, commentVersion.num)
      r              == Len(resps) + 1
  IN  IF ~version.ok \/ ~commentVersion.ok
      THEN Effect(instances, resps, Respond("GET", BadInteger))
      ELSE IF ~id.ok
      THEN Effect(instances, resps, Respond("GET", BadId))
      ELSE IF PollOutcome(data) = "gone"
      THEN Effect(instances, resps, Respond("GET", Gone))
      ELSE IF PollOutcome(data) = "events"
      THEN Effect(instances, resps, Respond("GET", OutputEvents(inst, data)))
      ELSE Effect([instances EXCEPT ![id.id].waiting = Append(@, r)],
                  Append(resps,
                         NewWaiting(id.id, version.num, commentVersion.num,
                                    Len(inst.accepted))),
                  NoOutput)

\* SubmitOutput without the test of the result.
SubmitOutputUnchecked(res) == OutputJson(res.result)

\* The response of the POST handler to the result of addEvents.
SubmitOutput(res) == IF ~res.ok THEN Stale ELSE OutputJson(res.result)

RECURSIVE MapFromJSON(_)
MapFromJSON(steps) ==
  IF steps = <<>> THEN <<>>
  ELSE <<StepFromJSON(Head(steps))>> \o MapFromJSON(Tail(steps))

\* handle("POST", [null, "events"], ...) with body data =
\* {version, steps, comment, clientID}, run in the current state.
HandlePostEvents(rawId, rawVersion, data) ==
  LET version == NonNegIntegers[rawVersion]
      steps   == MapFromJSON(data.steps)
      inst    == GetInstance(instances, rawId)
      res     == AddEvents(inst, version.num, steps, data.comment,
                           data.clientID)
      pass    == SendUpdates(NotifyOrder(res.inst.waiting), res.inst, resps)
  IN  IF ~version.ok
      THEN Effect(instances, resps, Respond("POST", BadInteger))
      ELSE IF ~res.ok
      THEN Effect(instances, resps, Respond("POST", SubmitOutput(res)))
      ELSE Effect([instances EXCEPT
                     ![rawId] = [res.inst EXCEPT !.waiting  = pass.waiting,
                                                 !.notified = pass.sent]],
                  pass.resps,
                  Respond("POST", IF pass.thrown THEN ServerError
                                  ELSE SubmitOutput(res)))

\* HandleTimeout without the abort.
HandleTimeoutSendOnly(r) ==
  Effect(instances,
         [resps EXCEPT ![r] = Send(@, OutputJson(TimeoutBody), "timeout")],
         out)

\* The callback of resp.setTimeout armed by the Waiting constructor of
\* waiter r: abort, then send.
HandleTimeout(r) ==
  Effect([instances EXCEPT ![resps[r].inst].waiting = Abort(@, r)],
         [resps EXCEPT ![r] = Send(@, OutputJson(TimeoutBody), "timeout")],
         out)

\* The "close" listener of the response object of waiter r: abort.
HandleClose(r) ==
  Effect([instances EXCEPT ![resps[r].inst].waiting = Abort(@, r)],
         [resps EXCEPT ![r].closed = TRUE],
         out)

\* The state after a handler or callback.
Becomes(effect) ==
  /\ instances' = effect.instances
  /\ resps' = effect.resps
  /\ out' = effect.out

\* A GET <doc>/events request arrives.
GetEventsRequest(rawId, rawVersion, rawCommentVersion) ==
  /\ requests < MaxRequests
  /\ requests' = requests + 1
  /\ Becomes(HandleGetEvents(rawId, rawVersion, rawCommentVersion))
  /\ UNCHANGED reader

\* A POST <doc>/events request arrives and its body has been read.
PostEventsRequest(rawId, rawVersion, data) ==
  /\ requests < MaxRequests
  /\ requests' = requests + 1
  /\ Becomes(HandlePostEvents(rawId, rawVersion, data))
  /\ UNCHANGED reader

\* The timeout of the response object of waiter r fires.
Timeout(r) ==
  /\ Becomes(HandleTimeout(r))
  /\ UNCHANGED <<requests, reader>>

\* The client of waiter r closes the connection.
Close(r) ==
  /\ ~resps[r].closed
  /\ Becomes(HandleClose(r))
  /\ UNCHANGED <<requests, reader>>

\* A polling client takes its baseline from a response of the server: a
\* well-formed baseline is not ahead of the instance it is sent to.
KnownBaseline(rawId, rawV, rawCV) ==
  LET version        == NonNegIntegers[rawV]
      commentVersion == NonNegIntegers[rawCV]
      id             == ValidInstanceIds[rawId]
  IN  (version.ok /\ commentVersion.ok /\ id.ok) =>
        /\ version.num <= instances[id.id].version
        /\ commentVersion.num <= instances[id.id].comments.version

\* The (version, commentVersion) fields of the polls: every pair of
\* well-formed values, and every malformed value in either field next to
\* a "0" in the other.
PollQueries ==
  { q \in RawNumbers \X RawNumbers :
      \/ NonNegIntegers[q[1]].ok /\ NonNegIntegers[q[2]].ok
      \/ q[1] = <<"0">>
      \/ q[2] = <<"0">> }

GetEventsStep ==
  \E rawId \in RawIds, q \in PollQueries :
    /\ KnownBaseline(rawId, q[1], q[2])
    /\ GetEventsRequest(rawId, q[1], q[2])

PostEventsStep ==
  \E rawId \in SubmitIds, rawV \in RawNumbers, data \in Submissions :
    PostEventsRequest(rawId, rawV, data)

TimeoutStep == \E r \in DOMAIN resps : Timeout(r)

CloseStep == \E r \in DOMAIN resps : Close(r)

Next == GetEventsStep \/ PostEventsStep \/ TimeoutStep \/ CloseStep

Spec == Init /\ [][Next]_vars

\* The timer armed by resp.setTimeout for each waiter runs out after five
\* minutes: the timeout callback of a registered waiter is not postponed
\* for ever.
TimeoutsFire ==
  \A r \in 1..MaxRequests : WF_vars(r \in DOMAIN resps /\ Timeout(r))

FairSpec == Spec /\ TimeoutsFire

\* ---------------------------------------------------------- the reader
\* What the reader makes of a response body: a batch moves its baseline to
\* the versions of the batch and adds the steps; the body of a timeout has
\* no version, and the reader keeps its baseline.
Merge(rd, body) ==
  IF "version" \in DOMAIN body
  THEN [rd EXCEPT !.version        = body.version,
                  !.commentVersion = body.commentVersion,
                  !.steps          = @ \o body.steps,
                  !.clientIDs      = @ \o body.clientIDs]
  ELSE rd

\* The reader once it has read what was written for its outstanding poll.
ReaderView ==
  IF reader.waiter # 0 /\ resps[reader.waiter].written # <<>>
  THEN Merge(reader, resps[reader.waiter].written[1].body)
  ELSE reader

\* The reader polls again with the versions of its last batch, once its
\* previous poll was answered or its connection closed.
ReaderPoll(rawVersion, rawCommentVersion) ==
  LET rd == ReaderView
      e  == HandleGetEvents(ReaderId, rawVersion, rawCommentVersion)
  IN  /\ requests < MaxRequests
      /\ ~reader.gone
      /\ reader.waiter # 0 =>
           (resps[reader.waiter].done \/ resps[reader.waiter].closed)
      /\ NonNegIntegers[rawVersion].ok
      /\ NonNegIntegers[rawVersion].num = rd.version
      /\ NonNegIntegers[rawCommentVersion].ok
      /\ NonNegIntegers[rawCommentVersion].num = rd.commentVersion
      /\ requests' = requests + 1
      /\ Becomes(e)
      /\ reader' =
           IF e.out = NoOutput
           THEN [rd EXCEPT !.waiter = Len(e.resps)]
           ELSE IF e.out.code = 200
           THEN [Merge(rd, e.out.body) EXCEPT !.waiter = 0]
           ELSE [rd EXCEPT !.waiter = 0, !.gone = TRUE]

ReaderPollStep ==
  \E rawV \in RawNumbers, rawCV \in RawNumbers : ReaderPoll(rawV, rawCV)

ReaderNext == ReaderPollStep \/ PostEventsStep \/ TimeoutStep \/ CloseStep

\* The server with the reader as its only polling client.
ReaderSpec == Init /\ [][ReaderNext]_vars

\* ---------------------------------------------------------- properties
Range(seq) == {seq[i] : i \in DOMAIN seq}

\* Another request is handled in the current state: what a handler does
\* with a request is stated of the states in which a request can arrive.
MoreRequests == requests < MaxRequests

\* A request field that passes nonNegInteger.
WellFormed(raw) == NonNegIntegers[raw].ok

\* C1: an accepted POST events submission (its version is the instance's
\* current version) leaves the instance's version at exactly the previous
\* version plus 1, whatever the number of steps in the batch, and no step
\* ever decreases the version of an instance.
C1_VersionPlusOne ==
  /\ [](\A rawId \in SubmitIds, rawV \in RawNumbers, data \in Submissions :
          ( WellFormed(rawV)
            /\ NonNegIntegers[rawV].num = instances[rawId].version )
          => LET e == HandlePostEvents(rawId, rawV, data)
             IN  /\ e.instances[rawId].version = instances[rawId].version + 1
                 /\ e.out.code = 200)
  /\ [][\A id \in InstIds :
          instances'[id].version >= instances[id].version]_vars

\* C1 witness: the latest request was an accepted submission, and an
\* instance reached version 2 by a one-step and a two-step batch.
C1_Witness ==
  /\ out.method = "POST"
  /\ out.code = 200
  /\ \E id \in InstIds :
       instances[id].version = 2 /\ Len(instances[id].accepted) = 3

\* C2: a POST events submission whose (well-formed) version differs from the
\* instance's current version gets the 409 "Version not current" response
\* and changes neither the instances (version, comment version, history,
\* waiting list) nor any waiter: no pending waiter is resolved.
C2_StaleRejected ==
  MoreRequests =>
  \A rawId \in SubmitIds, rawV \in RawNumbers, data \in Submissions :
    ( WellFormed(rawV)
      /\ NonNegIntegers[rawV].num # instances[rawId].version )
    => LET e == HandlePostEvents(rawId, rawV, data)
       IN  /\ e.out = Respond("POST", Stale)
           /\ e.instances = instances
           /\ e.resps = resps

\* C2 witness: the latest request was answered 409 while an instance that
\* has moved past version 0 still holds a pending waiter.
C2_Witness ==
  /\ out = Respond("POST", Stale)
  /\ \E id \in InstIds :
       /\ instances[id].version > 0
       /\ \E r \in Range(instances[id].waiting) : ~resps[r].done

\* The steps and client identifiers of the entries at positions from+1..to
\* of an acceptance log.
LogSteps(log, from, to) == [i \in 1..(to - from) |-> log[from + i].step]

LogClientIDs(log, from, to) == [i \in 1..(to - from) |-> log[from + i].clientID]

\* C3: a GET events request whose version and comment version both equal the
\* instance's current ones gets no response at request time and is parked
\* as a pending waiter; a parked poll is answered only by a publish or by
\* the timeout, and a batch it gets from a publish holds exactly operations
\* accepted after its registration, at least one of them.
C3_CurrentPollBlocks ==
  /\ MoreRequests =>
     \A rawId \in RawIds, rawV \in RawNumbers, rawCV \in RawNumbers :
       ( /\ WellFormed(rawV) /\ WellFormed(rawCV)
         /\ ValidInstanceIds[rawId].ok
         /\ LET inst == instances[ValidInstanceIds[rawId].id]
            IN  /\ NonNegIntegers[rawV].num = inst.version
                /\ NonNegIntegers[rawCV].num = inst.comments.version )
       => LET e == HandleGetEvents(rawId, rawV, rawCV)
              n == Len(e.resps)
          IN  /\ e.out = NoOutput
              /\ n = Len(resps) + 1
              /\ e.resps[n].written = <<>>
              /\ ~e.resps[n].done
              /\ n \in Range(e.instances[ValidInstanceIds[rawId].id].waiting)
  /\ \A r \in DOMAIN resps :
       LET w   == resps[r]
           log == instances[w.inst].accepted
       IN  w.written # <<>> =>
             /\ w.sentBy \in {<<"publish">>, <<"timeout">>}
             /\ w.sentBy = <<"publish">> =>
                  \E n \in (w.regLen + 1)..Len(log) :
                    /\ w.written[1].body.steps = LogSteps(log, w.regLen, n)
                    /\ w.written[1].body.clientIDs
                         = LogClientIDs(log, w.regLen, n)

\* C3 witness: a poll that was parked after operations had been accepted
\* has been answered by a publish.
C3_Witness ==
  \E r \in DOMAIN resps :
    /\ resps[r].regLen > 0
    /\ resps[r].sentBy = <<"publish">>
    /\ resps[r].written[1].body.steps # <<>>

\* C4 as stated: the response a poll gets from its timeout carries the
\* version the poll asked for and an empty steps list.
C4_TimeoutBatchAsClaimed ==
  \A r \in DOMAIN resps :
    resps[r].sentBy = <<"timeout">> =>
      LET body == resps[r].written[1].body
      IN  /\ "version" \in DOMAIN body
          /\ "steps" \in DOMAIN body
          /\ body.version = resps[r].version
          /\ body.steps = <<>>

\* C4 (amended): the response a poll gets from its timeout is a 200 response
\* whose body is the empty JSON object: it has no version and no steps
\* field.
C4_TimeoutEmptyObject ==
  \A r \in DOMAIN resps :
    resps[r].sentBy = <<"timeout">> =>
      /\ resps[r].written = <<Output(200, EmptyObject)>>
      /\ DOMAIN resps[r].written[1].body = {}

\* C4 witness: a parked poll was answered by its timeout, no publish having
\* occurred on its instance since it registered.
C4_Witness ==
  \E r \in DOMAIN resps :
    /\ resps[r].sentBy = <<"timeout">>
    /\ Len(instances[resps[r].inst].accepted) = resps[r].regLen

\* Waiter r is pending: unanswered and in the list of its instance.
Pending(r) ==
  /\ ~resps[r].done
  /\ r \in Range(instances[resps[r].inst].waiting)

\* Waiter r is in the list of some instance after the step.
ListedNext(r) == \E id \in InstIds : r \in Range(instances'[id].waiting)

\* C5 as stated: once the connection of an unanswered waiter has been
\* closed, the waiter is in no waiting list and no later step writes a
\* response for it.
C5_NoResponseAfterClose ==
  [][ \A r \in DOMAIN resps :
        (resps[r].closed /\ ~resps[r].done)
        => /\ resps'[r].written = resps[r].written
           /\ ~ListedNext(r) ]_vars

\* C6 as stated: every waiter gets at most one response, and once a waiter
\* has left Pending (by publish, timeout or close) no later publish, timeout
\* or close changes it: no response is written, its done flag stays, and it
\* does not return to a waiting list.
C6_ExactlyOneExit ==
  [][ \A r \in DOMAIN resps :
        /\ Len(resps'[r].written) <= 1
        /\ ~Pending(r)
           => /\ resps'[r].written = resps[r].written
              /\ resps'[r].done = resps[r].done
              /\ ~ListedNext(r) ]_vars

\* C7: an accepted submission resolves every waiter in the waiting list of
\* the instance, leaves the list empty, and every one of them gets one batch
\* that carries the version and the comment version the instance has after
\* the submission.
C7_PublishResolvesAll ==
  MoreRequests =>
  \A rawId \in SubmitIds, rawV \in RawNumbers, data \in Submissions :
    ( WellFormed(rawV)
      /\ NonNegIntegers[rawV].num = instances[rawId].version )
    => LET e     == HandlePostEvents(rawId, rawV, data)
           after == e.instances[rawId]
       IN  /\ after.waiting = <<>>
           /\ \A r \in Range(instances[rawId].waiting) :
                /\ e.resps[r].done
                /\ e.resps[r].sentBy = <<"publish">>
                /\ Len(e.resps[r].written) = 1
                /\ e.resps[r].written[1].code = 200
                /\ e.resps[r].written[1].body.version = after.version
                /\ e.resps[r].written[1].body.commentVersion
                     = after.comments.version

\* C7 witness: the latest request was an accepted submission that resolved
\* two waiters of one instance with the version it returned.
C7_Witness ==
  /\ out.method = "POST"
  /\ out.code = 200
  /\ \E r1, r2 \in DOMAIN resps :
       /\ r1 # r2
       /\ resps[r1].inst = resps[r2].inst
       /\ resps[r1].sentBy = <<"publish">>
       /\ resps[r2].sentBy = <<"publish">>
       /\ resps[r1].written[1].body.version = out.body.version
       /\ resps[r2].written[1].body.version = out.body.version
       /\ instances[resps[r1].inst].version = out.body.version

\* C8 as stated: a GET or POST events request with an invalid document id
\* is answered 400 and leaves every instance and every waiter as it was.
C8_InvalidIdRejected ==
  [][ \A rawId \in RawIds :
        ~ValidInstanceIds[rawId].ok
        => /\ \A q \in PollQueries :
                GetEventsRequest(rawId, q[1], q[2])
                => /\ out'.code = 400
                   /\ UNCHANGED <<instances, resps>>
           /\ \A rawV \in RawNumbers, data \in Submissions :
                (rawId \in SubmitIds /\ PostEventsRequest(rawId, rawV, data))
                => /\ out'.code = 400
                   /\ UNCHANGED <<instances, resps>> ]_vars

\* Some event accepted after baseline (version, commentVersion) is no longer
\* in the retained history of inst.
Truncated(inst, version, commentVersion) ==
  \/ \E i \in DOMAIN inst.accepted :
       /\ inst.accepted[i].version > version
       /\ inst.accepted[i] \notin Range(inst.steps)
  \/ \E i \in DOMAIN inst.comments.accepted :
       /\ inst.comments.accepted[i].version > commentVersion
       /\ inst.comments.accepted[i] \notin Range(inst.comments.events)

\* C9: a GET events request whose baseline is older than the retained
\* history gets the 410 "History no longer available" response; it gets no
\* batch and no waiter is parked for it.
C9_GoneBelowHorizon ==
  MoreRequests =>
  \A rawId \in RawIds, rawV \in RawNumbers, rawCV \in RawNumbers :
    ( /\ WellFormed(rawV) /\ WellFormed(rawCV)
      /\ ValidInstanceIds[rawId].ok
      /\ Truncated(instances[ValidInstanceIds[rawId].id],
                   NonNegIntegers[rawV].num, NonNegIntegers[rawCV].num) )
    => LET e == HandleGetEvents(rawId, rawV, rawCV)
       IN  /\ e.out = Respond("GET", Gone)
           /\ e.instances = instances
           /\ e.resps = resps

\* C9 witness: the latest request was a poll answered 410.
C9_Witness ==
  /\ out = Respond("GET", Gone)
  /\ \E id \in InstIds : Len(instances[id].steps) < Len(instances[id].accepted)

\* Number of entries of an acceptance log accepted up to version v.
UpTo(log, v) == Cardinality({i \in DOMAIN log : log[i].version <= v})

\* C10: a poll from version V of an instance at version V', V <= V' within
\* the retained history, that is answered at once gets exactly the steps
\* accepted after V, in acceptance order, each paired with the client
\* identifier of its submitter, along with version V'.
C10_RoundTrip ==
  MoreRequests =>
  \A rawId \in RawIds, rawV \in RawNumbers, rawCV \in RawNumbers :
    ( /\ WellFormed(rawV) /\ WellFormed(rawCV)
      /\ ValidInstanceIds[rawId].ok
      /\ KnownBaseline(rawId, rawV, rawCV)
      /\ ~Truncated(instances[ValidInstanceIds[rawId].id],
                    NonNegIntegers[rawV].num, NonNegIntegers[rawCV].num) )
    => LET inst == instances[ValidInstanceIds[rawId].id]
           log  == inst.accepted
           from == UpTo(log, NonNegIntegers[rawV].num)
           e    == HandleGetEvents(rawId, rawV, rawCV)
       IN  IF from = Len(log)
              /\ UpTo(inst.comments.accepted, NonNegIntegers[rawCV].num)
                   = Len(inst.comments.accepted)
           THEN e.out = NoOutput
           ELSE /\ e.out.method = "GET"
                /\ e.out.code = 200
                /\ e.out.body.version = inst.version
                /\ e.out.body.steps = LogSteps(log, from, Len(log))
                /\ e.out.body.clientIDs = LogClientIDs(log, from, Len(log))

\* C10 witness: the latest request was a poll answered at once with the
\* steps of two submissions, client 1's step before client 2's two steps.
C10_Witness ==
  /\ out.method = "GET"
  /\ out.code = 200
  /\ out.body.steps = <<"s1", "s2", "s3">>
  /\ out.body.clientIDs = <<1, 2, 2>>

\* The value of a request field is a non-negative integer.
IsNonNegInteger(raw) ==
  LET num == Number(raw)
  IN  ~num.nan /\ ~num.inf /\ num.frac = 0 /\ (~num.neg \/ num.int = 0)

\* C11 as stated: a GET events request whose version or commentVersion is
\* not a non-negative integer, and a POST events request whose version is
\* not one, is answered 400 and changes no instance and no waiter.
C11_BadIntegerRejected ==
  /\ \A rawId \in RawIds, q \in PollQueries :
       (~IsNonNegInteger(q[1]) \/ ~IsNonNegInteger(q[2]))
       => LET e == HandleGetEvents(rawId, q[1], q[2])
          IN  /\ e.out = Respond("GET", BadInteger)
              /\ e.instances = instances
              /\ e.resps = resps
  /\ \A rawId \in SubmitIds, rawV \in RawNumbers, data \in Submissions :
       ~IsNonNegInteger(rawV)
       => LET e == HandlePostEvents(rawId, rawV, data)
          IN  /\ e.out = Respond("POST", BadInteger)
              /\ e.instances = instances
              /\ e.resps = resps

\* C12: when a submission at version V is accepted by an instance, every
\* poll blocked on it at version V is answered with one batch computed at
\* that time: version V + 1 and exactly the submitted steps, each tagged
\* with the client identifier of the submitter; the waiter is then no
\* longer in the waiting list of the instance.
C12_ResolvedByPublish ==
  MoreRequests =>
  \A rawId \in SubmitIds, rawV \in RawNumbers, data \in Submissions :
    ( WellFormed(rawV)
      /\ NonNegIntegers[rawV].num = instances[rawId].version )
    => LET e == HandlePostEvents(rawId, rawV, data)
       IN  \A r \in DOMAIN resps :
             ( Pending(r) /\ resps[r].inst = rawId
               /\ resps[r].version = instances[rawId].version )
             => /\ e.resps[r].written
                     = << OutputJson(
                            [version        |-> resps[r].version + 1,
                             commentVersion |-> e.instances[rawId].comments.version,
                             steps          |-> data.steps,
                             clientIDs      |-> [i \in 1..Len(data.steps)
                                                  |-> data.clientID],
                             comment        |-> data.comment]) >>
                /\ e.resps[r].done
                /\ r \notin Range(e.instances[rawId].waiting)

\* C12 witness: a poll that blocked at version 1 has been answered by the
\* publish of client 2's two steps with version 2, and is in no list.
C12_Witness ==
  /\ out.method = "POST"
  /\ out.code = 200
  /\ \E r \in DOMAIN resps :
       /\ resps[r].version = 1
       /\ resps[r].sentBy = <<"publish">>
       /\ resps[r].written[1].body.version = 2
       /\ resps[r].written[1].body.steps = <<"s2", "s3">>
       /\ resps[r].written[1].body.clientIDs = <<2, 2>>
       /\ \A id \in InstIds : r \notin Range(instances[id].waiting)

\* C13: between handlers, no waiter is pending on an instance whose version
\* or comment version is ahead of the baseline the waiter asked for: no
\* pending waiter has missed the notification of an accepted submission.
C13_NoLostWakeup ==
  \A r \in DOMAIN resps :
    Pending(r) =>
      /\ instances[resps[r].inst].version <= resps[r].version
      /\ instances[resps[r].inst].comments.version <= resps[r].commentVersion

\* C13 witness: a waiter is pending at the current version of an instance
\* on which an earlier waiter has been answered by a publish.
C13_Witness ==
  \E r1, r2 \in DOMAIN resps :
    /\ r1 < r2
    /\ resps[r1].inst = resps[r2].inst
    /\ resps[r1].sentBy = <<"publish">>
    /\ Pending(r2)
    /\ resps[r2].version = instances[resps[r2].inst].version
    /\ resps[r2].version > resps[r1].version

\* The comment events at positions from+1..to of an acceptance log.
LogComments(log, from, to) == [i \in 1..(to - from) |-> log[from + i].comment]

\* C14: a GET events request whose baseline the instance is ahead of, within
\* the retained history (its version is behind, or its comment version is
\* behind even when its version is current), is answered at once with the
\* batch and the current version and comment version of the instance, and
\* no waiter is registered for it.
C14_AheadAnsweredAtOnce ==
  MoreRequests =>
  \A rawId \in RawIds, rawV \in RawNumbers, rawCV \in RawNumbers :
    ( /\ WellFormed(rawV) /\ WellFormed(rawCV)
      /\ ValidInstanceIds[rawId].ok
      /\ LET inst == instances[ValidInstanceIds[rawId].id]
         IN  /\ ~Truncated(inst, NonNegIntegers[rawV].num,
                           NonNegIntegers[rawCV].num)
             /\ \/ NonNegIntegers[rawV].num < inst.version
                \/ NonNegIntegers[rawCV].num < inst.comments.version )
    => LET inst  == instances[ValidInstanceIds[rawId].id]
           log   == inst.accepted
           clog  == inst.comments.accepted
           from  == UpTo(log, NonNegIntegers[rawV].num)
           cfrom == UpTo(clog, NonNegIntegers[rawCV].num)
           e     == HandleGetEvents(rawId, rawV, rawCV)
       IN  /\ e.out = Respond("GET", OutputJson(
                 [version        |-> inst.version,
                  commentVersion |-> inst.comments.version,
                  steps          |-> LogSteps(log, from, Len(log)),
                  clientIDs      |-> LogClientIDs(log, from, Len(log)),
                  comment        |-> LogComments(clog, cfrom, Len(clog))]))
           /\ e.resps = resps
           /\ e.instances = instances

\* C14 witness: two steps were accepted at version 0 and the latest request,
\* a poll from version 0, was answered at once with both steps and version
\* 1; no poll has been parked.
C14_Witness ==
  /\ out.method = "GET"
  /\ out.code = 200
  /\ out.body.version = 1
  /\ out.body.steps = <<"s2", "s3">>
  /\ out.body.clientIDs = <<2, 2>>
  /\ resps = <<>>

\* C15: a client that polls again and again with the versions of its last
\* batch, keeping them after a timeout response, has received, whenever its
\* baseline is version V, exactly the steps accepted up to V, each once, in
\* acceptance order and with the client identifier of its submitter;
\* submissions, publishes, timeouts and closes interleave freely.
C15_EveryStepOnceInOrder ==
  LET rd  == ReaderView
      log == instances[ReaderId].accepted
  IN  /\ rd.steps = LogSteps(log, 0, UpTo(log, rd.version))
      /\ rd.clientIDs = LogClientIDs(log, 0, UpTo(log, rd.version))
      /\ rd.version <= instances[ReaderId].version

\* C15 witness: the reader kept its baseline over a timeout response, polled
\* again and got client 2's two steps from a publish.
C15_Witness ==
  /\ ReaderView.steps = <<"s2", "s3">>
  /\ ReaderView.clientIDs = <<2, 2>>
  /\ ReaderView.version = 1
  /\ \E r \in DOMAIN resps : resps[r].sentBy = <<"timeout">>
  /\ \E r \in DOMAIN resps : resps[r].sentBy = <<"publish">>

\* Waiter r is in the waiting list of some instance.
Listed(r) == \E id \in InstIds : r \in Range(instances[id].waiting)

\* C16: with timeouts that eventually fire, every registered waiter
\* eventually is in no waiting list and, unless its connection was closed,
\* has got a response: from some point on this holds of all the waiters
\* that ever register.  A waiter whose connection has been closed is in no
\* waiting list in any later state.
C16_WaitersLeave ==
  /\ <>[](\A r \in DOMAIN resps :
            ~Listed(r) /\ (resps[r].written # <<>> \/ resps[r].closed))
  /\ [](\A r \in DOMAIN resps : resps[r].closed => ~Listed(r))

\* C16 witness: one waiter left the list by its timeout and got a response,
\* another left it unanswered by the close of its connection.
C16_Witness ==
  \E r1, r2 \in DOMAIN resps :
    /\ resps[r1].sentBy = <<"timeout">> /\ ~resps[r1].closed /\ ~Listed(r1)
    /\ resps[r2].closed /\ resps[r2].written = <<>> /\ ~Listed(r2)

\* C17: an accepted submission resolves the pending waiters of the instance
\* in the order in which they registered, oldest first, and every one of
\* them has its response when the handler returns the result of the
\* submission; the waiting lists are kept in registration order.
C17_FifoNotification ==
  /\ \A id \in InstIds :
       \A i, j \in DOMAIN instances[id].waiting :
         i < j => instances[id].waiting[i] < instances[id].waiting[j]
  /\ MoreRequests =>
     \A rawId \in SubmitIds, rawV \in RawNumbers, data \in Submissions :
       ( WellFormed(rawV)
         /\ NonNegIntegers[rawV].num = instances[rawId].version )
       => LET e == HandlePostEvents(rawId, rawV, data)
          IN  /\ e.instances[rawId].notified = instances[rawId].waiting
              /\ \A r \in Range(instances[rawId].waiting) :
                   e.resps[r].written # <<>>
              /\ e.out = Respond("POST",
                                 OutputJson(
                                   [version        |-> e.instances[rawId].version,
                                    commentVersion |->
                                      e.instances[rawId].comments.version]))

\* C17 witness: the latest request was an accepted submission whose pass
\* resolved three waiters, in the order in which they had registered.
C17_Witness ==
  /\ out.method = "POST"
  /\ out.code = 200
  /\ \E id \in InstIds :
       /\ instances[id].notified = <<1, 2, 3>>
       /\ \A r \in 1..3 : resps[r].sentBy = <<"publish">>

\* Effect e leaves alone every instance other than `id` and every waiter of
\* another instance.
FramedTo(e, id) ==
  /\ \A other \in InstIds \ {id} : e.instances[other] = instances[other]
  /\ \A r \in DOMAIN resps : resps[r].inst # id => e.resps[r] = resps[r]

\* C18: a poll, a submission, a timeout or a connection close for one
\* document changes neither the version, comment version, history or
\* waiting list of the instance of any other document id, nor any waiter
\* of such an instance: it resolves none of them.
C18_OtherInstancesUnchanged ==
  /\ MoreRequests =>
     \A rawId \in RawIds, q \in PollQueries :
       FramedTo(HandleGetEvents(rawId, q[1], q[2]), ValidInstanceIds[rawId].id)
  /\ MoreRequests =>
     \A rawId \in SubmitIds, rawV \in RawNumbers, data \in Submissions :
       FramedTo(HandlePostEvents(rawId, rawV, data), rawId)
  /\ \A r \in DOMAIN resps :
       /\ FramedTo(HandleTimeout(r), resps[r].inst)
       /\ FramedTo(HandleClose(r), resps[r].inst)

\* C18 witness: the latest request was an accepted submission to one
\* document while a waiter registered before it is still pending on
\* another document, whose instance is still at version 0.
C18_Witness ==
  /\ out.method = "POST"
  /\ out.code = 200
  /\ \E r \in DOMAIN resps, id \in InstIds :
       /\ Pending(r)
       /\ resps[r].inst # id
       /\ instances[resps[r].inst].version = 0
       /\ instances[id].version = 1
       /\ instances[id].notified # <<>>

\* C19: between handlers, every waiter in a waiting list is unanswered (its
\* done flag is false and nothing was written for it), is in that list
\* once, and is in the list of the instance it refers to; a waiter that has
\* been answered, by its timeout or by a publish, is in no list.
C19_ListedWaitersPending ==
  /\ \A id \in InstIds :
       \A i \in DOMAIN instances[id].waiting :
         LET r == instances[id].waiting[i]
         IN  /\ r \in DOMAIN resps
             /\ ~resps[r].done
             /\ resps[r].written = <<>>
             /\ resps[r].inst = id
             /\ \A j \in DOMAIN instances[id].waiting :
                  instances[id].waiting[j] = r => j = i
  /\ \A r \in DOMAIN resps :
       (resps[r].done \/ resps[r].written # <<>>) => ~Listed(r)

\* C19 witness: one waiter was answered by its timeout, another by a
\* publish, neither is in a list, and a third one is pending in the list of
\* its instance.
C19_Witness ==
  \E r1, r2, r3 \in DOMAIN resps :
    /\ resps[r1].sentBy = <<"timeout">> /\ ~Listed(r1)
    /\ resps[r2].sentBy = <<"publish">> /\ ~Listed(r2)
    /\ Pending(r3)

\* C20: a GET events request gets at most one response.  Its handler writes
\* a response at request time (400, 410 or a batch) exactly when it
\* registers no waiter, and writes nothing at request time when it
\* registers one; and at most one response is ever written for a waiter.
C20_OneResponsePerPoll ==
  /\ MoreRequests =>
     \A rawId \in RawIds, q \in PollQueries :
       LET e == HandleGetEvents(rawId, q[1], q[2])
       IN  \/ /\ e.resps = resps
              /\ e.instances = instances
              /\ e.out.method = "GET"
              /\ e.out.code \in {200, 400, 410}
           \/ /\ Len(e.resps) = Len(resps) + 1
              /\ SubSeq(e.resps, 1, Len(resps)) = resps
              /\ e.resps[Len(e.resps)].written = <<>>
              /\ e.out.method = ""
              /\ e.out.code = 0
  /\ \A r \in DOMAIN resps : Len(resps[r].written) <= 1

\* C20 witness: a parked poll got its one response from a publish, its
\* connection was closed afterwards, and the latest request, another poll,
\* was answered at request time without a waiter.
C20_Witness ==
  /\ out.method = "GET"
  /\ out.code = 200
  /\ \E r \in DOMAIN resps :
       /\ resps[r].sentBy = <<"publish">>
       /\ resps[r].closed
       /\ Len(resps[r].written) = 1
       /\ Len(resps) = 1

====
